---- MODULE Spec2Model ----
(***************************************************************************)
(* rargsxd: the argument parser of src/src/parser.rs and the argument      *)
(* declarations of src/src/argument.rs.                                    *)
(*                                                                         *)
(* Strings are sequences of one-character strings, so that strip_prefix,   *)
(* starts_with and chars() are computed on the text and not assumed.       *)
(* The vector index idx is 1-based here (Rust's idx + 1).                  *)
(*                                                                         *)
(* src/src/lib.rs holds an earlier draft of the same types and parser; it  *)
(* differs from parser.rs in the empty-input guard (len() == 1), in the    *)
(* version exits (status 0), and in passing over an unregistered --name    *)
(* and a dashed follower of a short Option in silence.  The model follows  *)
(* parser.rs and argument.rs; the Args and tokens are those of the tests   *)
(* at the end of lib.rs, shortened.                                        *)
(*                                                                         *)
(* The HashMap's iteration order is not determined by the program: every   *)
(* step that iterates the registry may meet its entries in any order.      *)
(***************************************************************************)
EXTENDS Integers, Sequences, FiniteSets, TLC

VARIABLES
    args,          \* ArgParser.args: HashMap<String, Arg>, a function name -> Arg
    require_args,  \* ArgParser.require_args
    registered,    \* the Args as the host handed them to args() (name -> Arg)
    input,         \* the Vec<String> given to parse_vec
    idx,           \* position of the token walk in input (1-based)
    pc,            \* "build" | "walk" | "check" | "returned" | "exited" | "panicked"
    exit_code,     \* status given to process::exit, NoExit while the process runs
    stdout,        \* what println! wrote, a sequence of lines
    stderr         \* what eprintln! wrote, a sequence of lines

vars == <<args, require_args, registered, input, idx, pc, exit_code, stdout, stderr>>

(***************************************************************************)
(* Bounds of the model.                                                    *)
(***************************************************************************)
MaxLen == 2        \* longest token vector given to parse_vec
MaxArgs == 2       \* most Args the host registers besides help and version
MaxCluster == 3    \* most characters of a cluster token of SpecCluster
MaxPrints == 1     \* most calls of print_help the host makes itself

NoExit == -1

(***************************************************************************)
(* Text.                                                                   *)
(***************************************************************************)
Dash == "-"

\* str::starts_with(char)
starts_with(s, ch) == Len(s) >= 1 /\ s[1] = ch

\* str::strip_prefix: the rest after the prefix p, or None
None == [tag |-> "None"]
Some(x) == [tag |-> "Some", val |-> x]

strip_prefix(s, p) ==
    IF Len(s) >= Len(p) /\ SubSeq(s, 1, Len(p)) = p
    THEN Some(SubSeq(s, Len(p) + 1, Len(s)))
    ELSE None

\* format!("--{}", arg)
format_long(name) == <<Dash, Dash>> \o name

help_name == <<"h", "e", "l", "p">>
version_name == <<"v", "e", "r", "s", "i", "o", "n">>

(***************************************************************************)
(* argument.rs: WordType, ArgType, Arg.                                    *)
(***************************************************************************)
Boolean(b) == [tag |-> "Boolean", b |-> b]
String_(s) == [tag |-> "String_", s |-> s]

Unknown == [tag |-> "Unknown"]
Flag(b) == [tag |-> "Flag", b |-> b]
Option_(s) == [tag |-> "Option_", s |-> s]
Word(wt) == [tag |-> "Word", w |-> wt]

\* Arg::new(namee): short is the first character of the name
Arg_new(namee) ==
    [name |-> namee, short |-> namee[1], typ |-> Unknown,
     required |-> FALSE, set |-> FALSE]

Arg_flag(a, val) == [a EXCEPT !.typ = Flag(val)]
Arg_option(a, val) == [a EXCEPT !.typ = Option_(val)]
Arg_word(a, wt) == [a EXCEPT !.typ = Word(wt)]
Arg_short(a, ch) == [a EXCEPT !.short = ch]
Arg_required(a, r) == [a EXCEPT !.required = r]
Arg_set(a) == [a EXCEPT !.set = TRUE]

(***************************************************************************)
(* parser.rs: output and the exit sites.  A run of parse_vec is carried as *)
(* a record r: the registry, the exit status (NoExit while running) and    *)
(* the lines written so far.                                               *)
(***************************************************************************)
HelpText == [line |-> "help"]
VersionLine == [line |-> "version"]
NameLine(n) == [line |-> "name", name |-> n]
DidntFind(n) == [line |-> "Didn't find", name |-> n]
UnexpectedArgument(a) == [line |-> "Unexpected argument", arg |-> a]

Run0(reg) == [args |-> reg, exit |-> NoExit, out |-> <<>>, err |-> <<>>]

\* print_help(): the help dialog on stdout
print_help(r) == [r EXCEPT !.out = Append(@, HelpText)]

\* help_exit with the status of a satisfied request
help_exit_zero(r) == [print_help(r) EXCEPT !.exit = 0]

\* help_exit(): print_help(); process::exit(1)
help_exit(r) == [print_help(r) EXCEPT !.exit = 1]

\* version_exit(): println!(name version); process::exit(1)
version_exit(r) == [r EXCEPT !.out = Append(@, VersionLine), !.exit = 1]

\* unexpected that writes its line and returns to the walk
unexpected_no_exit(r, a) == [r EXCEPT !.err = Append(@, UnexpectedArgument(a))]

\* unexpected(arg): eprintln!(Unexpected argument: "arg"); help_exit()
unexpected(r, a) == help_exit([r EXCEPT !.err = Append(@, UnexpectedArgument(a))])

\* args.get(idx + 1)
next_token(v, i) == IF i + 1 <= Len(v) THEN Some(v[i + 1]) ELSE None

(***************************************************************************)
(* parse_vec, rule 1 (lines 42-58): the token is a key of the registry.    *)
(***************************************************************************)
\* word_match that takes the following token as the value whatever it starts with
word_match_any_follower(r, v, i) ==
    LET a == r.args[v[i]]
        next == next_token(v, i)
    IN  IF a.typ.tag = "Word"
        THEN IF a.typ.w.tag = "Boolean"
             THEN [r EXCEPT !.args[v[i]] = Arg_word(a, Boolean(~a.typ.w.b))]
             ELSE IF next.tag = "Some"
                  THEN [r EXCEPT !.args[v[i]] = Arg_set(Arg_word(a, String_(next.val)))]
                  ELSE r
        ELSE r

\* word_match that stores the picked value with Arg::option instead of Arg::word
word_match_as_option(r, v, i) ==
    LET a == r.args[v[i]]
        next == next_token(v, i)
    IN  IF a.typ.tag = "Word"
        THEN IF a.typ.w.tag = "Boolean"
             THEN [r EXCEPT !.args[v[i]] = Arg_word(a, Boolean(~a.typ.w.b))]
             ELSE IF next.tag = "Some" /\ ~starts_with(next.val, Dash)
                  THEN [r EXCEPT !.args[v[i]] = Arg_set(Arg_option(a, next.val))]
                  ELSE r
        ELSE r

word_match(r, v, i) ==
    LET a == r.args[v[i]]
        next == next_token(v, i)
    IN  IF a.typ.tag = "Word"
        THEN IF a.typ.w.tag = "Boolean"
             THEN [r EXCEPT !.args[v[i]] = Arg_word(a, Boolean(~a.typ.w.b))]
             ELSE IF next.tag = "Some" /\ ~starts_with(next.val, Dash)
                  THEN [r EXCEPT !.args[v[i]] = Arg_set(Arg_word(a, String_(next.val)))]
                  ELSE r
        ELSE r

(***************************************************************************)
(* parse_vec, rule 2 (lines 60-79): the token is --name.                   *)
(***************************************************************************)
\* long_form with a Flag set to true instead of toggled
long_form_sets_true(r, v, i, name) ==
    LET next == next_token(v, i)
    IN  IF name = help_name THEN help_exit(r)
        ELSE IF name = version_name THEN version_exit(r)
        ELSE IF name \in DOMAIN r.args
        THEN LET a == r.args[name]
             IN  IF a.typ.tag = "Flag"
                 THEN [r EXCEPT !.args[name] = Arg_set(Arg_flag(a, TRUE))]
                 ELSE IF a.typ.tag = "Option_"
                 THEN IF next.tag = "Some" /\ ~starts_with(next.val, Dash)
                      THEN [r EXCEPT !.args[name] = Arg_set(Arg_option(a, next.val))]
                      ELSE r
                 ELSE r
        ELSE unexpected(r, format_long(name))

long_form(r, v, i, name) ==
    LET next == next_token(v, i)
    IN  IF name = help_name THEN help_exit(r)
        ELSE IF name = version_name THEN version_exit(r)
        ELSE IF name \in DOMAIN r.args
        THEN LET a == r.args[name]
             IN  IF a.typ.tag = "Flag"
                 THEN [r EXCEPT !.args[name] = Arg_set(Arg_flag(a, ~a.typ.b))]
                 ELSE IF a.typ.tag = "Option_"
                 THEN IF next.tag = "Some" /\ ~starts_with(next.val, Dash)
                      THEN [r EXCEPT !.args[name] = Arg_set(Arg_option(a, next.val))]
                      ELSE r
                 ELSE r
        ELSE unexpected(r, format_long(name))

(***************************************************************************)
(* parse_vec, rule 3 (lines 81-112): the token is -chars.  order is the    *)
(* sequence in which values_mut() yields the registry's entries.           *)
(***************************************************************************)
\* short_matches that lets every entry through
short_matches_any(a, ch) == TRUE

\* line 87: arg.short == ch
short_matches(a, ch) == a.short = ch

\* short_arg with the dashed follower of an Option passed over in silence
short_arg_silent(r, n, ch, next) ==
    LET a == r.args[n]
    IN  IF short_matches(a, ch)
        THEN IF a.typ.tag = "Flag"
             THEN [r EXCEPT !.args[n] = Arg_set(Arg_flag(a, ~a.typ.b))]
             ELSE IF a.typ.tag = "Option_" /\ next.tag = "Some" /\ ~starts_with(next.val, Dash)
             THEN [r EXCEPT !.args[n] = Arg_set(Arg_option(a, next.val))]
             ELSE r
        ELSE r

\* lines 87-109: the body of the loop for one entry of the registry
short_arg(r, n, ch, next) ==
    LET a == r.args[n]
    IN  IF short_matches(a, ch)
        THEN IF a.typ.tag = "Flag"
             THEN [r EXCEPT !.args[n] = Arg_set(Arg_flag(a, ~a.typ.b))]
             ELSE IF a.typ.tag = "Option_"
             THEN IF next.tag = "Some"
                  THEN IF ~starts_with(next.val, Dash)
                       THEN [r EXCEPT !.args[n] = Arg_set(Arg_option(a, next.val))]
                       ELSE [print_help([r EXCEPT
                                 !.out = Append(@, NameLine(a.name)),
                                 !.err = Append(@, UnexpectedArgument(next.val))])
                             EXCEPT !.exit = 1]
                  ELSE r
             ELSE r
        ELSE r

\* short_scan that leaves the loop, instead of the process, at an Option whose
\* following token starts with `-`
RECURSIVE short_scan_breaks_at_dashed(_, _, _, _, _)
short_scan_breaks_at_dashed(r, order, k, ch, next) ==
    IF k > Len(order) \/ r.exit # NoExit THEN r
    ELSE LET a == r.args[order[k]]
         IN  IF /\ short_matches(a, ch)
                /\ a.typ.tag = "Option_"
                /\ next.tag = "Some"
                /\ starts_with(next.val, Dash)
             THEN r
             ELSE short_scan_breaks_at_dashed(short_arg(r, order[k], ch, next),
                                              order, k + 1, ch, next)

\* short_scan that ends at the first entry whose short is the character
RECURSIVE short_scan_first_match(_, _, _, _, _)
short_scan_first_match(r, order, k, ch, next) ==
    IF k > Len(order) \/ r.exit # NoExit THEN r
    ELSE IF short_matches(r.args[order[k]], ch)
    THEN short_arg(r, order[k], ch, next)
    ELSE short_scan_first_match(r, order, k + 1, ch, next)

\* lines 86-110: for arg in self.args.values_mut(), from entry k of order on
RECURSIVE short_scan(_, _, _, _, _)
short_scan(r, order, k, ch, next) ==
    IF k > Len(order) \/ r.exit # NoExit THEN r
    ELSE short_scan(short_arg(r, order[k], ch, next), order, k + 1, ch, next)

\* short_form that leaves the cluster at a character no registered arg has as short
RECURSIVE short_form_stops_at_unknown(_, _, _, _, _)
short_form_stops_at_unknown(r, order, chars, k, next) ==
    IF k > Len(chars) \/ r.exit # NoExit THEN r
    ELSE IF chars[k] = "h" THEN help_exit(r)
    ELSE IF chars[k] = "v" THEN version_exit(r)
    ELSE IF \A n \in DOMAIN r.args : r.args[n].short # chars[k] THEN r
    ELSE short_form_stops_at_unknown(short_scan(r, order, 1, chars[k], next),
                                     order, chars, k + 1, next)

\* short_form that acts on the first character of the token only
short_form_first_char(r, order, chars, k, next) ==
    IF k > Len(chars) \/ k > 1 \/ r.exit # NoExit THEN r
    ELSE IF chars[k] = "h" THEN help_exit(r)
    ELSE IF chars[k] = "v" THEN version_exit(r)
    ELSE short_scan(r, order, 1, chars[k], next)

\* lines 82-111: chars().for_each, from character k of chars on
RECURSIVE short_form(_, _, _, _, _)
short_form(r, order, chars, k, next) ==
    IF k > Len(chars) \/ r.exit # NoExit THEN r
    ELSE IF chars[k] = "h" THEN help_exit(r)
    ELSE IF chars[k] = "v" THEN version_exit(r)
    ELSE short_form(short_scan(r, order, 1, chars[k], next), order, chars, k + 1, next)

(***************************************************************************)
(* parse_vec, lines 41-113: the body of the walk for the token at i.       *)
(***************************************************************************)
Rule(reg, tok) ==
    IF tok \in DOMAIN reg THEN "word"
    ELSE IF strip_prefix(tok, <<Dash, Dash>>).tag = "Some" THEN "long"
    ELSE IF strip_prefix(tok, <<Dash>>).tag = "Some" THEN "short"
    ELSE "none"

token_step(r, v, i, order) ==
    LET tok == v[i]
        rule == Rule(r.args, tok)
    IN  IF rule = "word" THEN word_match(r, v, i)
        ELSE IF rule = "long"
        THEN long_form(r, v, i, strip_prefix(tok, <<Dash, Dash>>).val)
        ELSE IF rule = "short"
        THEN short_form(r, order, strip_prefix(tok, <<Dash>>).val, 1, next_token(v, i))
        ELSE r

\* The orders in which iterating the HashMap can yield the entries in names.
\* The entries outside names are the ones the loop body leaves alone, so their
\* places in the iteration do not matter.
Orders(names) ==
    LET n == Cardinality(names)
    IN  {o \in [1..n -> names] : \A i, j \in 1..n : o[i] = o[j] => i = j}

\* the entries a short token can act on: those that line 87 lets through for
\* one of its chars
ShortHits(reg, chars) ==
    {n \in DOMAIN reg : \E k \in 1..Len(chars) : short_matches(reg[n], chars[k])}

\* the entries the required check can report
Missing(reg) == {n \in DOMAIN reg : reg[n].required /\ ~reg[n].set}

(***************************************************************************)
(* parse_vec, lines 115-120: the first entry, in iteration order, that is  *)
(* required and not set is reported and the process exits.                 *)
(***************************************************************************)
\* required_check that reports a missing arg and goes on without exiting
RECURSIVE required_check_no_exit(_, _, _)
required_check_no_exit(r, order, k) ==
    IF k > Len(order) \/ r.exit # NoExit THEN r
    ELSE LET a == r.args[order[k]]
         IN  required_check_no_exit(
                 IF a.required /\ ~a.set
                 THEN print_help([r EXCEPT !.out = Append(@, DidntFind(a.name))])
                 ELSE r,
                 order, k + 1)

RECURSIVE required_check(_, _, _)
required_check(r, order, k) ==
    IF k > Len(order) \/ r.exit # NoExit THEN r
    ELSE LET a == r.args[order[k]]
         IN  required_check(
                 IF a.required /\ ~a.set
                 THEN help_exit([r EXCEPT !.out = Append(@, DidntFind(a.name))])
                 ELSE r,
                 order, k + 1)

(***************************************************************************)
(* parse_vec, lines 35-123, as a function of the registry, require_args,   *)
(* the vector and the order in which the HashMap yields all its entries.   *)
(***************************************************************************)
RECURSIVE walk(_, _, _, _)
walk(r, v, i, order) ==
    IF i > Len(v) \/ r.exit # NoExit THEN r
    ELSE walk(token_step(r, v, i, order), v, i + 1, order)

parse_vec(reg, require, v, order) ==
    IF Len(v) = 0 /\ require
    THEN [print_help(Run0(reg)) EXCEPT !.exit = 1]
    ELSE required_check(walk(Run0(reg), v, 1, order), order, 1)

(***************************************************************************)
(* The getters, lines 125-153.                                             *)
(***************************************************************************)
get_option(reg, name) ==
    IF name \in DOMAIN reg /\ reg[name].typ.tag = "Option_"
    THEN Some(reg[name].typ.s) ELSE None

get_flag(reg, name) ==
    IF name \in DOMAIN reg /\ reg[name].typ.tag = "Flag"
    THEN Some(reg[name].typ.b) ELSE None

get_word(reg, name) ==
    IF name \in DOMAIN reg /\ reg[name].typ.tag = "Word"
    THEN Some(reg[name].typ.w) ELSE None

(***************************************************************************)
(* The Args a host registers and the tokens it passes, drawn from small    *)
(* sets.  Names have two characters so that a name, its --name form and    *)
(* its short character are three different texts.                          *)
(***************************************************************************)
ab == <<"a", "b">>
bc == <<"b", "c">>
op == <<"o", "p">>
wb == <<"w", "b">>
ws == <<"w", "s">>
un == <<"u", "n">>
zz == <<"z", "z">>
d0 == <<"d">>
x0 == <<"x">>

Pool ==
    { Arg_flag(Arg_new(ab), FALSE),
      Arg_required(Arg_flag(Arg_new(ab), TRUE), TRUE),
      Arg_flag(Arg_new(bc), FALSE),
      Arg_option(Arg_new(op), d0),
      Arg_required(Arg_option(Arg_short(Arg_new(op), "a"), d0), TRUE),
      Arg_required(Arg_word(Arg_new(wb), Boolean(FALSE)), TRUE),
      Arg_word(Arg_new(ws), String_(d0)),
      Arg_new(un) }

Tokens ==
    { format_long(ab), format_long(op), format_long(zz),
      format_long(help_name), format_long(version_name),
      <<Dash, "a">>, <<Dash, "o">>,
      <<Dash, "a", "b">>, <<Dash, "z", "a">>,
      <<Dash, "a", "h">>, <<Dash, "v">>,
      wb, ws, x0 }

RECURSIVE Vectors(_)
Vectors(n) ==
    IF n = 0 THEN {<<>>}
    ELSE LET shorter == Vectors(n - 1)
         IN  shorter \cup {Append(v, t) : v \in {w \in shorter : Len(w) = n - 1}, t \in Tokens}

(***************************************************************************)
(* ArgParser::new (lines 156-179): help and version are registered.        *)
(***************************************************************************)
new_args ==
    LET h == Arg_flag(Arg_short(Arg_new(help_name), "h"), FALSE)
        v == Arg_flag(Arg_short(Arg_new(version_name), "v"), FALSE)
    IN  (help_name :> h) @@ (version_name :> v)

Init ==
    /\ args = new_args
    /\ registered = new_args
    /\ require_args = FALSE
    /\ input = <<>>
    /\ idx = 0
    /\ pc = "build"
    /\ exit_code = NoExit
    /\ stdout = <<>>
    /\ stderr = <<>>

\* HashMap::insert: the entry for the name is added or replaced
insert(reg, a) == [n \in DOMAIN reg \cup {a.name} |-> IF n = a.name THEN a ELSE reg[n]]

\* args(vec), lines 263-272, one Arg at a time: Unknown panics
Args(a) ==
    /\ pc = "build"
    /\ Cardinality(DOMAIN args \cup {a.name}) <= MaxArgs + 2
    /\ IF a.typ.tag = "Unknown"
       THEN /\ pc' = "panicked"
            /\ UNCHANGED <<args, registered>>
       ELSE /\ args' = insert(args, a)
            /\ registered' = insert(registered, a)
            /\ pc' = pc
    /\ UNCHANGED <<require_args, input, idx, exit_code, stdout, stderr>>

\* require_args(require), lines 275-278
RequireArgs(require) ==
    /\ pc = "build"
    /\ require_args' = require
    /\ require_args' # require_args
    /\ UNCHANGED <<args, registered, input, idx, pc, exit_code, stdout, stderr>>

\* the run of parse_vec as the state holds it, and the state after a step of it
Current == [args |-> args, exit |-> exit_code, out |-> stdout, err |-> stderr]

Becomes(r) ==
    /\ args' = r.args
    /\ exit_code' = r.exit
    /\ stdout' = r.out
    /\ stderr' = r.err

\* print_help(), lines 182-224, called by the host before or after parse_vec:
\* the help dialog goes to stdout and the call returns
PrintHelp ==
    /\ pc \in {"build", "returned"}
    /\ Len(stdout) < MaxPrints
    /\ stdout' = print_help(Current).out
    /\ UNCHANGED <<args, require_args, registered, input, idx, pc, exit_code, stderr>>

\* parse_vec with the guard of the draft that keeps the program name in the vector
ParseVec_program_name_guard(v) ==
    /\ pc = "build"
    /\ input' = v
    /\ IF Len(v) = 1 /\ require_args
       THEN /\ Becomes([print_help(Current) EXCEPT !.exit = 1])
            /\ pc' = "exited"
            /\ idx' = idx
       ELSE /\ Becomes(Current)
            /\ pc' = IF Len(v) = 0 THEN "check" ELSE "walk"
            /\ idx' = 1
    /\ UNCHANGED <<registered, require_args>>

\* parse_vec(args), lines 35-39: the entry and the empty-input guard
ParseVec(v) ==
    /\ pc = "build"
    /\ input' = v
    /\ IF Len(v) = 0 /\ require_args
       THEN /\ Becomes([print_help(Current) EXCEPT !.exit = 1])
            /\ pc' = "exited"
            /\ idx' = idx
       ELSE /\ Becomes(Current)
            /\ pc' = IF Len(v) = 0 THEN "check" ELSE "walk"
            /\ idx' = 1
    /\ UNCHANGED <<registered, require_args>>

\* one iteration of the for loop of lines 41-113, for the rule the token meets
Iteration(rule, order) ==
    /\ pc = "walk"
    /\ Rule(args, input[idx]) = rule
    /\ LET r == token_step(Current, input, idx, order)
       IN  /\ Becomes(r)
           /\ pc' = IF r.exit # NoExit THEN "exited"
                    ELSE IF idx = Len(input) THEN "check" ELSE "walk"
           /\ idx' = IF r.exit # NoExit THEN idx ELSE idx + 1
    /\ UNCHANGED <<registered, require_args, input>>

WordMatch == Iteration("word", <<>>)
LongForm == Iteration("long", <<>>)
ShortForm ==
    /\ pc = "walk"
    /\ \E order \in Orders(ShortHits(args, Tail(input[idx]))) : Iteration("short", order)
NoRule == Iteration("none", <<>>)

\* lines 115-122: the required check, then the return
RequiredCheck ==
    /\ pc = "check"
    /\ \E order \in Orders(Missing(args)) :
          LET r == required_check(Current, order, 1)
          IN  /\ Becomes(r)
              /\ pc' = IF r.exit # NoExit THEN "exited" ELSE "returned"
    /\ UNCHANGED <<registered, require_args, input, idx>>

\* the vectors the host gives to parse_vec
InputVectors == Vectors(MaxLen)

Next ==
    \/ \E a \in Pool : Args(a)
    \/ \E require \in BOOLEAN : RequireArgs(require)
    \/ PrintHelp
    \/ pc = "build" /\ \E v \in InputVectors : ParseVec(v)
    \/ WordMatch
    \/ LongForm
    \/ ShortForm
    \/ NoRule
    \/ RequiredCheck

Spec == Init /\ [][Next]_vars

TypeOK ==
    /\ pc \in {"build", "walk", "check", "returned", "exited", "panicked"}
    /\ exit_code \in {NoExit, 0, 1}
    /\ (pc = "exited") = (exit_code # NoExit)

(***************************************************************************)
(* Vocabulary of the properties.                                           *)
(***************************************************************************)
IsFlag(reg, n) == n \in DOMAIN reg /\ reg[n].typ.tag = "Flag"
IsOption(reg, n) == n \in DOMAIN reg /\ reg[n].typ.tag = "Option_"
IsWord(reg, n) == n \in DOMAIN reg /\ reg[n].typ.tag = "Word"
IsWordBoolean(reg, n) == IsWord(reg, n) /\ reg[n].typ.w.tag = "Boolean"
IsWordString(reg, n) == IsWord(reg, n) /\ reg[n].typ.w.tag = "String_"

ShortToken(ch) == <<Dash, ch>>

\* the walk is about to examine a token
AtToken == pc = "walk"
Token == input[idx]
Following == next_token(input, idx)
FollowingIsValue == Following.tag = "Some" /\ ~starts_with(Following.val, Dash)
FollowingIsDashed == Following.tag = "Some" /\ starts_with(Following.val, Dash)

\* the step wrote nothing and did not end the process
SilentStep == exit_code' = NoExit /\ stdout' = stdout /\ stderr' = stderr

\* the walk examines --name or -s of the Option n
AtOptionLong(n) == AtToken /\ IsOption(args, n) /\ Token = format_long(n)
AtOptionShort(n) == AtToken /\ IsOption(args, n) /\ Token = ShortToken(args[n].short)

(***************************************************************************)
(* C1 as stated: for a registered Option, --name V and -s V both give      *)
(* get_option(name) = V when V does not start with a dash; when the        *)
(* following token starts with a dash or is absent, both forms silently    *)
(* leave the value as it was.                                              *)
(***************************************************************************)
C1_OptionPickupSilent ==
    [][\A n \in DOMAIN args :
          AtOptionLong(n) \/ AtOptionShort(n) =>
              IF FollowingIsValue
              THEN get_option(args', n) = Some(Following.val)
              ELSE get_option(args', n) = get_option(args, n) /\ SilentStep]_vars

(***************************************************************************)
(* C1 as amended: --name V and -s V both give get_option(name) = V and     *)
(* mark the arg set when V does not start with a dash; when the following  *)
(* token is absent both forms silently leave the value; when it starts     *)
(* with a dash the long form silently leaves the value, and the short form *)
(* leaves the value, writes Unexpected argument with that token to stderr  *)
(* and ends the process with exit status 1.                                *)
(***************************************************************************)
C1_OptionPickup ==
    [][\A n \in DOMAIN args :
          AtOptionLong(n) \/ AtOptionShort(n) =>
              IF FollowingIsValue
              THEN /\ get_option(args', n) = Some(Following.val)
                   /\ args'[n].set
                   /\ exit_code' = NoExit
              ELSE IF FollowingIsDashed /\ AtOptionShort(n)
              THEN /\ get_option(args', n) = get_option(args, n)
                   /\ exit_code' = 1
                   /\ stderr' = Append(stderr, UnexpectedArgument(Following.val))
              ELSE /\ args'[n] = args[n]
                   /\ SilentStep]_vars

\* both forms have picked a value up, and a dashed follower has ended a short form
C1_Witness ==
    /\ pc = "exited"
    /\ exit_code = 1
    /\ Len(input) = 2
    /\ idx = 1
    /\ IsOption(args, op)
    /\ input[1] = ShortToken(args[op].short)
    /\ starts_with(input[2], Dash)
    /\ get_option(args, op) = Some(d0)

(***************************************************************************)
(* C2: when the walk meets a token equal to the name of a registered       *)
(* Word(Boolean(b)) arg, the arg's value becomes Boolean(~b) and its set   *)
(* bit becomes true.                                                       *)
(***************************************************************************)
C2_WordBooleanToggleSet ==
    [][\A n \in DOMAIN args :
          AtToken /\ Token = n /\ IsWordBoolean(args, n) =>
              /\ get_word(args', n) = Some(Boolean(~args[n].typ.w.b))
              /\ args'[n].set]_vars

(***************************************************************************)
(* C3: a registered Flag with default d that the input observes k times,   *)
(* by --name or by its short character in a - token, has after parse_vec   *)
(* the value d when k is even and ~d when k is odd.                        *)
(***************************************************************************)
RECURSIVE Occurrences(_, _)
Occurrences(chars, ch) ==
    IF chars = <<>> THEN 0
    ELSE (IF Head(chars) = ch THEN 1 ELSE 0) + Occurrences(Tail(chars), ch)

\* how often one token observes the Flag or Option a
ObservedBy(tok, a) ==
    IF tok = format_long(a.name) THEN 1
    ELSE IF starts_with(tok, Dash) /\ ~(Len(tok) >= 2 /\ tok[2] = Dash)
    THEN Occurrences(Tail(tok), a.short)
    ELSE 0

RECURSIVE Observed(_, _)
Observed(v, a) ==
    IF v = <<>> THEN 0 ELSE ObservedBy(Head(v), a) + Observed(Tail(v), a)

C3_FlagParity ==
    pc = "returned" =>
        \A n \in DOMAIN registered :
            IsFlag(registered, n) =>
                LET d == registered[n].typ.b
                    k == Observed(input, registered[n])
                IN  get_flag(args, n) = Some(IF k % 2 = 1 THEN ~d ELSE d)

\* a flag seen once by its long name and once inside a cluster is back at d
C3_Witness ==
    /\ pc = "returned"
    /\ IsFlag(registered, ab)
    /\ input = <<format_long(ab), <<Dash, "a", "b">>>>
    /\ Observed(input, registered[ab]) = 2
    /\ get_flag(args, ab) = Some(registered[ab].typ.b)

(***************************************************************************)
(* C4: after the walk, if some registered arg is required and not set the  *)
(* process prints Didn't find with its name, then help, and ends with exit *)
(* status 1; parse_vec returns only when every required arg is set.        *)
(***************************************************************************)
C4_RequiredCheck ==
    [][pc = "check" =>
          IF Missing(args) # {}
          THEN /\ pc' = "exited"
               /\ exit_code' = 1
               /\ \E n \in Missing(args) :
                     stdout' = stdout \o <<DidntFind(n), HelpText>>
          ELSE /\ pc' = "returned"
               /\ exit_code' = NoExit
               /\ \A n \in DOMAIN args' : args'[n].required => args'[n].set]_vars

\* a walk over some tokens ended, and a required arg it never saw ended the process
C4_Witness ==
    /\ pc = "exited"
    /\ exit_code = 1
    /\ Len(input) >= 1
    /\ idx = Len(input) + 1
    /\ \E n \in Missing(args) : stdout = <<DidntFind(n), HelpText>>

(***************************************************************************)
(* Clusters.  SpecCluster starts from a parser whose host has registered   *)
(* up to three flags with the shorts a, b, c and possibly an option, and   *)
(* parses either one cluster token or its characters as separate tokens.   *)
(***************************************************************************)
cd == <<"c", "d">>

ClusterChars == {"a", "b", "c"}

Clusters == UNION {[1..k -> ClusterChars] : k \in 2..MaxCluster}

ClusterToken(chars) == <<Dash>> \o chars

\* -a -b -c for abc
Separate(chars) == [k \in 1..Len(chars) |-> ShortToken(chars[k])]

ClusterVectors == {<<ClusterToken(c)>> : c \in Clusters} \cup {Separate(c) : c \in Clusters}

ClusterChoices ==
    [ab : {{}, {Arg_flag(Arg_new(ab), FALSE)}, {Arg_flag(Arg_new(ab), TRUE)}},
     bc : {{}, {Arg_flag(Arg_new(bc), FALSE)}},
     cd : {{}, {Arg_flag(Arg_new(cd), TRUE)}},
     op : {{}, {Arg_option(Arg_new(op), d0)},
               {Arg_option(Arg_short(Arg_new(op), "a"), d0)},
               {Arg_option(Arg_short(Arg_new(op), "c"), d0)}}]

RECURSIVE insert_all(_, _)
insert_all(reg, as) ==
    IF as = {} THEN reg
    ELSE LET a == CHOOSE x \in as : TRUE
         IN  insert_all(insert(reg, a), as \ {a})

InitCluster ==
    /\ \E c \in ClusterChoices :
          args = insert_all(new_args, c.ab \cup c.bc \cup c.cd \cup c.op)
    /\ registered = args
    /\ require_args = FALSE
    /\ input = <<>>
    /\ idx = 0
    /\ pc = "build"
    /\ exit_code = NoExit
    /\ stdout = <<>>
    /\ stderr = <<>>

NextCluster ==
    \/ pc = "build" /\ \E v \in ClusterVectors : ParseVec(v)
    \/ ShortForm
    \/ RequiredCheck

SpecCluster == InitCluster /\ [][NextCluster]_vars

\* parse_vec has ended on a vector of one cluster token whose characters are
\* all shorts of registered Flag args
ClusterParsed ==
    /\ pc \in {"returned", "exited"}
    /\ Len(input) = 1
    /\ Len(input[1]) >= 3
    /\ input[1][1] = Dash
    /\ \A k \in 2..Len(input[1]) :
          /\ input[1][k] # Dash
          /\ \E n \in DOMAIN registered : IsFlag(registered, n) /\ registered[n].short = input[1][k]

\* the flags and the outcome of this run are those of parse_vec on the
\* characters of the cluster as separate tokens, whatever the HashMap's order
SameAsSeparate ==
    \A order \in Orders(DOMAIN registered) :
        LET sep == parse_vec(registered, require_args, Separate(Tail(input[1])), order)
        IN  /\ sep.exit = exit_code
            /\ \A n \in DOMAIN registered :
                  IsFlag(registered, n) => get_flag(sep.args, n) = get_flag(args, n)

\* some character of the cluster other than its last is the short of an Option
OptionBeforeLast ==
    \E k \in 2..(Len(input[1]) - 1) :
        \E n \in DOMAIN registered : IsOption(registered, n) /\ registered[n].short = input[1][k]

(***************************************************************************)
(* C5 as stated: for registered Flag args with shorts a, b, c, parsing the *)
(* cluster -abc leaves every registered flag as parsing -a -b -c does.     *)
(***************************************************************************)
C5_ClusterAsSeparate == ClusterParsed => SameAsSeparate

(***************************************************************************)
(* C5 as amended: for registered Flag args with shorts a, b, c, and when   *)
(* no registered Option arg has a or b as its short character, parsing the *)
(* cluster -abc leaves every registered flag, and the outcome of           *)
(* parse_vec, as parsing -a -b -c does.                                    *)
(***************************************************************************)
C5_ClusterEquivalence == ClusterParsed /\ ~OptionBeforeLast => SameAsSeparate

\* -abc has toggled three registered flags while an option shares the short c
C5_Witness ==
    /\ pc = "returned"
    /\ input = <<ClusterToken(<<"a", "b", "c">>)>>
    /\ ~OptionBeforeLast
    /\ IsOption(registered, op) /\ registered[op].short = "c"
    /\ \A n \in {ab, bc, cd} :
          IsFlag(registered, n) /\ get_flag(args, n) = Some(~registered[n].typ.b)

(***************************************************************************)
(* C6: when parse_vec returns, every registered arg that is not required   *)
(* and that the input does not observe (no token equal to its name for a   *)
(* Word; no --name and no occurrence of its short in a - token for a Flag  *)
(* or Option) answers its getter with the default given at registration.   *)
(***************************************************************************)
Queried(reg, n) == <<get_flag(reg, n), get_option(reg, n), get_word(reg, n)>>

Unobserved(v, a) ==
    IF a.typ.tag = "Word"
    THEN \A i \in 1..Len(v) : v[i] # a.name
    ELSE Observed(v, a) = 0

C6_DefaultPreserved ==
    pc = "returned" =>
        \A n \in DOMAIN registered :
            ~registered[n].required /\ Unobserved(input, registered[n]) =>
                Queried(args, n) = Queried(registered, n)

\* a flag was toggled and an option picked a value up while a string word,
\* or a second flag, was never named and kept its default
C6_Witness ==
    /\ pc = "returned"
    /\ Len(input) = 2
    /\ \E n \in DOMAIN registered : Queried(args, n) # Queried(registered, n)
    /\ \E n \in DOMAIN registered \ {help_name, version_name} :
          /\ ~registered[n].required
          /\ Unobserved(input, registered[n])
          /\ Queried(args, n) = Queried(registered, n)

(***************************************************************************)
(* C7 as stated: any input vector with a token --x, x not a registered     *)
(* name, makes parse_vec end the process with exit status 1 after writing  *)
(* Unexpected argument "--x" to stderr; parse_vec never returns on it.     *)
(***************************************************************************)
UnknownLong(tok) ==
    LET name == strip_prefix(tok, <<Dash, Dash>>)
    IN  /\ name.tag = "Some"
        /\ name.val \notin DOMAIN registered
        /\ name.val \notin {help_name, version_name}

HasUnknownLong(v) == \E i \in 1..Len(v) : UnknownLong(v[i])

C7_UnknownLongAlwaysReported ==
    pc \in {"returned", "exited"} /\ HasUnknownLong(input) =>
        /\ pc = "exited"
        /\ exit_code = 1
        /\ \E i \in 1..Len(input), k \in 1..Len(stderr) :
              UnknownLong(input[i]) /\ stderr[k] = UnexpectedArgument(input[i])

(***************************************************************************)
(* C7 as amended: when the walk reaches a token --x, x not a registered    *)
(* name, parse_vec writes Unexpected argument "--x" to stderr, prints help *)
(* and ends the process with exit status 1; on an input vector with such a *)
(* token parse_vec never returns, and the process ends with exit status 1, *)
(* at that token or at an earlier one that ends the process itself.        *)
(***************************************************************************)
C7_UnknownLong ==
    [][/\ AtToken /\ UnknownLong(Token) =>
              /\ pc' = "exited"
              /\ exit_code' = 1
              /\ stderr' = Append(stderr, UnexpectedArgument(Token))
              /\ stdout' = Append(stdout, HelpText)
              /\ args' = args
       /\ HasUnknownLong(input') =>
              /\ pc' \notin {"check", "returned"}
              /\ pc' = "exited" => exit_code' = 1 /\ idx' <= Len(input')]_vars

\* the walk passed a token in silence and then ended at --zz
C7_Witness ==
    /\ pc = "exited"
    /\ exit_code = 1
    /\ Len(input) = 2
    /\ idx = 2
    /\ UnknownLong(input[2])
    /\ stderr = <<UnexpectedArgument(format_long(zz))>>

(***************************************************************************)
(* C8: the input vector of the single token --help makes parse_vec, for    *)
(* any registry, print help and end the process with exit status 0.        *)
(***************************************************************************)
HelpAlone == AtToken /\ input = <<format_long(help_name)>>

C8_HelpExitsZero ==
    [][HelpAlone =>
          /\ pc' = "exited"
          /\ stdout' = Append(stdout, HelpText)
          /\ exit_code' = 0]_vars

(***************************************************************************)
(* What help_exit (lines 280-283) does instead: on the single token --help *)
(* the process prints help and ends with exit status 1, the status of the  *)
(* error exits, leaving the registry as it was.                            *)
(***************************************************************************)
C8_HelpExitsOne ==
    [][HelpAlone =>
          /\ pc' = "exited"
          /\ stdout' = Append(stdout, HelpText)
          /\ stderr' = stderr
          /\ exit_code' = 1
          /\ args' = registered]_vars

\* --help alone ended the process of a parser with registered args of its
\* host, with status 1
C8_Witness ==
    /\ pc = "exited"
    /\ input = <<format_long(help_name)>>
    /\ exit_code = 1
    /\ stdout = <<HelpText>>
    /\ DOMAIN registered # {help_name, version_name}
    /\ require_args

(***************************************************************************)
(* C9: at a --version token parse_vec prints the version line and ends the *)
(* process with exit status 0, whereas a v character in a short token ends *)
(* it with exit status 1.                                                  *)
(***************************************************************************)
C9_VersionExitCodes ==
    [][AtToken =>
          /\ Token = format_long(version_name) =>
                /\ pc' = "exited"
                /\ stdout' = Append(stdout, VersionLine)
                /\ exit_code' = 0
          /\ Token = ShortToken("v") =>
                /\ pc' = "exited"
                /\ exit_code' = 1]_vars

(***************************************************************************)
(* C10: in every state after construction, for a name registered with kind *)
(* K the getter of K answers with the arg's current value and the other    *)
(* two getters answer None; for an unregistered name all three answer      *)
(* None.  Parsing never changes the kind of a registered arg.              *)
(***************************************************************************)
AllNames == {a.name : a \in Pool} \cup {zz, x0, help_name, version_name, format_long(ab)}

C10_GettersByKind ==
    \A n \in AllNames :
        IF n \in DOMAIN registered
        THEN /\ n \in DOMAIN args
             /\ args[n].typ.tag = registered[n].typ.tag
             /\ IF registered[n].typ.tag = "Flag"
                THEN Queried(args, n) = <<Some(args[n].typ.b), None, None>>
                ELSE IF registered[n].typ.tag = "Option_"
                THEN Queried(args, n) = <<None, Some(args[n].typ.s), None>>
                ELSE Queried(args, n) = <<None, None, Some(args[n].typ.w)>>
        ELSE Queried(args, n) = <<None, None, None>>

\* a string word picked a value up, and only get_word answers for it
C10_Witness ==
    /\ pc = "returned"
    /\ IsWordString(registered, ws)
    /\ Queried(args, ws) = <<None, None, Some(String_(x0))>>
    /\ Queried(args, zz) = <<None, None, None>>

(***************************************************************************)
(* C11: at a token equal to the name of a registered Word(String(d)) arg,  *)
(* a following token V that does not start with `-` leaves get_word(name)  *)
(* = String(V) and the set bit true; when the following token is absent or *)
(* starts with `-` the value and the set bit stay as they were.  No other  *)
(* arg changes and nothing is written or exited on that iteration.         *)
(***************************************************************************)
AtWordString(n) ==
    /\ AtToken
    /\ Token = n
    /\ n \in DOMAIN args
    /\ IsWordString(args, n)

C11_WordStringPickup ==
    [][\A n \in DOMAIN args :
          AtWordString(n) =>
              /\ SilentStep
              /\ \A m \in DOMAIN args \ {n} : args'[m] = args[m]
              /\ IF FollowingIsValue
                 THEN /\ get_word(args', n) = Some(String_(Following.val))
                      /\ args'[n].set
                 ELSE /\ get_word(args', n) = get_word(args, n)
                      /\ args'[n].set = args[n].set]_vars

\* `ws x0` has returned and x0 is read back through get_word
C11_Witness ==
    /\ pc = "returned"
    /\ input = <<ws, x0>>
    /\ ws \in DOMAIN registered
    /\ registered[ws] = Arg_word(Arg_new(ws), String_(d0))
    /\ get_word(args, ws) = Some(String_(x0))
    /\ args[ws].set

\* `ws --ab` has returned with ws still at its default and unset
C11_WitnessDashed ==
    /\ pc = "returned"
    /\ input = <<ws, format_long(ab)>>
    /\ ab \in DOMAIN registered
    /\ ws \in DOMAIN registered
    /\ get_word(args, ws) = Some(String_(d0))
    /\ ~args[ws].set

(***************************************************************************)
(* C12: the vector parse_vec receives holds no program name.  With         *)
(* require_args = true it prints help and exits with status 1 exactly when *)
(* the vector has length 0; a vector of length 1 or more passes the guard  *)
(* untouched and the walk runs its tokens through the rules starting with  *)
(* the one at index 0 (idx = 1 here), one index at a time with none left   *)
(* out, and the required check is reached only from the last token.        *)
(***************************************************************************)
Entering == pc = "build" /\ pc' \notin {"build", "panicked"}

GuardRejects ==
    /\ pc' = "exited"
    /\ exit_code' = 1
    /\ stdout' = Append(stdout, HelpText)
    /\ stderr' = stderr
    /\ args' = args

GuardPasses ==
    /\ exit_code' = NoExit
    /\ stdout' = stdout
    /\ stderr' = stderr
    /\ args' = args
    /\ idx' = 1
    /\ pc' = IF Len(input') = 0 THEN "check" ELSE "walk"

C12_EmptyInputGuard ==
    [][/\ Entering =>
             IF Len(input') = 0 /\ require_args THEN GuardRejects ELSE GuardPasses
       /\ AtToken =>
             /\ idx \in 1..Len(input)
             /\ input' = input
             /\ \/ pc' = "exited" /\ exit_code' = 1 /\ idx' = idx
                \/ /\ exit_code' = NoExit
                   /\ idx' = idx + 1
                   /\ pc' = IF idx = Len(input) THEN "check" ELSE "walk"]_vars

\* with require_args = true a one-token vector was walked: its token at index 0
\* toggled the flag it names
C12_Witness ==
    /\ require_args
    /\ pc = "returned"
    /\ input = <<format_long(ab)>>
    /\ ab \in DOMAIN registered
    /\ IsFlag(registered, ab)
    /\ args[ab].typ.b = ~registered[ab].typ.b
    /\ args[ab].set

\* with require_args = true the empty vector was rejected by the guard
C12_WitnessRejected ==
    /\ require_args
    /\ pc = "exited"
    /\ input = <<>>
    /\ idx = 0
    /\ exit_code = 1

(***************************************************************************)
(* C13: a token that an Option or a string Word picked up as its value is  *)
(* examined again on its own iteration, and on that iteration it matches   *)
(* no rule and changes no registered arg's value or set bit.               *)
(***************************************************************************)
\* the characters of a token
CharsOf(tok) == { tok[k] : k \in 1..Len(tok) }

\* the arg n took the token at idx as its value on the iteration before
PickedUpBy(n) ==
    LET prev == input[idx - 1]
    IN  \/ /\ IsWordString(args, n)
           /\ prev = n
           /\ args[n].typ.w = String_(Token)
        \/ /\ IsOption(args, n)
           /\ args[n].typ.s = Token
           /\ args[n].set
           /\ \/ Rule(args, prev) = "long" /\ prev = format_long(n)
              \/ Rule(args, prev) = "short" /\ args[n].short \in CharsOf(Tail(prev))

AtPickedUpValue ==
    /\ AtToken
    /\ idx >= 2
    /\ ~starts_with(Token, Dash)
    /\ \E n \in DOMAIN args : PickedUpBy(n)

C13_ValueTokenInert ==
    [][AtPickedUpValue =>
          /\ idx' = idx + 1
          /\ Rule(args, Token) = "none"
          /\ args' = args]_vars

\* `--op wb`: wb was stored as the value of op and then, on its own iteration,
\* toggled the Boolean word wb
C13_ValueActedAsWord ==
    /\ input = <<format_long(op), wb>>
    /\ idx = 3
    /\ IsOption(registered, op)
    /\ IsWordBoolean(registered, wb)
    /\ get_option(args, op) = Some(wb)
    /\ get_word(args, wb) = Some(Boolean(~registered[wb].typ.w.b))

(***************************************************************************)
(* C14: a character of a short token that is not `h` or `v` and is the     *)
(* short of no registered arg is passed over in silence: the token acts    *)
(* exactly as the same token without that character (so the other          *)
(* characters of the cluster still act, each Flag being toggled once per   *)
(* occurrence of its short), nothing is changed, written or exited on its  *)
(* account, and the walk goes on to the next token.                        *)
(***************************************************************************)
UnknownShort(ch) ==
    /\ ch \notin {"h", "v"}
    /\ \A n \in DOMAIN args : args[n].short # ch

KnownChars(chars) == SelectSeq(chars, LAMBDA ch : ~UnknownShort(ch))

AtUnknownShort ==
    /\ AtToken
    /\ Rule(args, Token) = "short"
    /\ \E k \in 2..Len(Token) : UnknownShort(Token[k])

Toggled(b, times) == IF times % 2 = 1 THEN ~b ELSE b

C14_UnknownShortIgnored ==
    [][AtUnknownShort =>
          LET chars == Tail(Token)
              known == KnownChars(chars)
          IN  /\ \E order \in Orders(ShortHits(args, known)) :
                    LET r == short_form(Current, order, known, 1, Following)
                    IN  /\ args' = r.args
                        /\ exit_code' = r.exit
                        /\ stdout' = r.out
                        /\ stderr' = r.err
              /\ known = <<>> => args' = args /\ SilentStep
              /\ exit_code' = NoExit =>
                    /\ idx' = idx + 1
                    /\ pc' \in {"walk", "check"}
                    /\ \A n \in DOMAIN args :
                          IsFlag(args, n) =>
                              args'[n].typ.b =
                                  Toggled(args[n].typ.b, Occurrences(chars, args[n].short))]_vars

\* `-za --ab` with no arg of short z: a has toggled ab and the walk stands at
\* the next token
C14_Witness ==
    /\ pc = "walk"
    /\ idx = 2
    /\ input = <<<<Dash, "z", "a">>, format_long(ab)>>
    /\ \A n \in DOMAIN args : args[n].short # "z"
    /\ IsFlag(registered, ab)
    /\ args[ab].typ.b = ~registered[ab].typ.b
    /\ args[ab].set
    /\ exit_code = NoExit
    /\ stdout = <<>>
    /\ stderr = <<>>

(***************************************************************************)
(* Shared shorts.  SpecShared starts from a parser whose host has          *)
(* registered any of two flags and two options whose names all begin with  *)
(* c, so that Arg::new gives each of them the short c, one flag and one    *)
(* option being required, and parses vectors of the tokens -c, -cc and a   *)
(* value.                                                                  *)
(***************************************************************************)
ce == <<"c", "e">>
co == <<"c", "o">>
cp == <<"c", "p">>

SharedTokens == {ShortToken("c"), <<Dash, "c", "c">>, x0}

RECURSIVE SharedVectors(_)
SharedVectors(n) ==
    IF n = 0 THEN {<<>>}
    ELSE LET shorter == SharedVectors(n - 1)
         IN  shorter \cup {Append(v, t) : v \in {w \in shorter : Len(w) = n - 1},
                                          t \in SharedTokens}

SharedChoices ==
    [cd : {{}, {Arg_flag(Arg_new(cd), FALSE)}},
     ce : {{}, {Arg_required(Arg_flag(Arg_new(ce), TRUE), TRUE)}},
     co : {{}, {Arg_option(Arg_new(co), d0)}},
     cp : {{}, {Arg_required(Arg_option(Arg_new(cp), d0), TRUE)}}]

InitShared ==
    /\ \E c \in SharedChoices :
          args = insert_all(new_args, c.cd \cup c.ce \cup c.co \cup c.cp)
    /\ registered = args
    /\ require_args = FALSE
    /\ input = <<>>
    /\ idx = 0
    /\ pc = "build"
    /\ exit_code = NoExit
    /\ stdout = <<>>
    /\ stderr = <<>>

NextShared ==
    \/ pc = "build" /\ \E v \in SharedVectors(MaxLen) : ParseVec(v)
    \/ ShortForm
    \/ NoRule
    \/ RequiredCheck

SpecShared == InitShared /\ [][NextShared]_vars

(***************************************************************************)
(* C15: when two or more registered args have the short c, a short token   *)
(* in which c occurs once acts on all of them in the one iteration: every  *)
(* such Flag is toggled once and every such Option holds the following     *)
(* token when that token exists and does not start with `-`, each with its *)
(* set bit true.  (With c occurring k times each such Flag is toggled k    *)
(* times.)  The values are those the process goes on with: an iteration    *)
(* that ends the process leaves nothing to read.                           *)
(***************************************************************************)
Sharing(ch) == {n \in DOMAIN args : args[n].short = ch}

AtSharedShort(ch) ==
    /\ AtToken
    /\ Rule(args, Token) = "short"
    /\ ch \notin {"h", "v"}
    /\ Occurrences(Tail(Token), ch) >= 1
    /\ Cardinality(Sharing(ch)) >= 2

C15_SharedShortActsOnAll ==
    [][\A ch \in {"a", "b", "c", "o", "w"} :
          AtSharedShort(ch) /\ exit_code' = NoExit =>
              \A n \in Sharing(ch) :
                  /\ IsFlag(args, n) =>
                        /\ args'[n].typ.b =
                               Toggled(args[n].typ.b, Occurrences(Tail(Token), ch))
                        /\ args'[n].set
                  /\ IsOption(args, n) /\ FollowingIsValue =>
                        /\ args'[n].typ.s = Following.val
                        /\ args'[n].set]_vars

\* `-c x0` with two flags and two options of short c: both flags are toggled
\* and both options hold x0
C15_Witness ==
    /\ pc = "returned"
    /\ input = <<ShortToken("c"), x0>>
    /\ {cd, ce, co, cp} \subseteq DOMAIN registered
    /\ args[cd].typ.b = ~registered[cd].typ.b /\ args[cd].set
    /\ args[ce].typ.b = ~registered[ce].typ.b /\ args[ce].set
    /\ get_option(args, co) = Some(x0) /\ args[co].set
    /\ get_option(args, cp) = Some(x0) /\ args[cp].set

(***************************************************************************)
(* C16: for a fixed registry and a fixed vector the outcome of parse_vec   *)
(* (return or exit, the exit status on exit, and on return the value and   *)
(* set bit of every registered arg) is the same for every order in which   *)
(* the HashMap yields its entries.  Every way a run can end, whatever      *)
(* order each loop over the registry took, has the outcome parse_vec       *)
(* computes for each order of all the entries.                             *)
(***************************************************************************)
\* all the orders in which the entries of names can be yielded
RECURSIVE AllOrders(_)
AllOrders(names) ==
    IF names = {} THEN {<<>>}
    ELSE UNION {{<<n>> \o o : o \in AllOrders(names \ {n})} : n \in names}

Outcome(r) ==
    IF r.exit = NoExit
    THEN [returns |-> TRUE, status |-> NoExit, args |-> r.args]
    ELSE [returns |-> FALSE, status |-> r.exit, args |-> <<>>]

Ended == pc \in {"returned", "exited"}

C16_OrderIndependent ==
    Ended =>
        /\ (pc = "returned") = (exit_code = NoExit)
        /\ \A order \in AllOrders(DOMAIN registered) :
              Outcome(parse_vec(registered, require_args, input, order)) = Outcome(Current)

\* `-c x0` with a flag and an option of short c and both required args among
\* the four: the scan met several entries and the run returned
C16_Witness ==
    /\ pc = "returned"
    /\ input = <<ShortToken("c"), x0>>
    /\ {cd, ce, co, cp} \subseteq DOMAIN registered
    /\ Cardinality(Missing(registered)) = 2
    /\ Missing(args) = {}

\* `x0` alone with both required args registered: the required check met two
\* missing entries and the run exited
C16_WitnessExit ==
    /\ pc = "exited"
    /\ input = <<x0>>
    /\ Cardinality(Missing(args)) = 2
    /\ exit_code = 1

====
